---------------------------- MODULE Spec2Model ----------------------------
(***************************************************************************)
(* A model of the poloniex public API clients:                             *)
(*   src/src/poloniex/public.py     PublicAPI (v1, eager and lazy paging)  *)
(*   src/src/poloniex/api.py        PublicAPI (v1, older eager paging)     *)
(*   src/src/poloniex/abstract.py   PublicAPI (execute only)               *)
(*   src/src/poloniex/public_v2.py  PublicApiV2                            *)
(* One behaviour of the model is one call of one client method against a   *)
(* server.  The trade-history loop takes one step per iteration.           *)
(***************************************************************************)
EXTENDS Integers, Sequences, FiniteSets, TLC

(***************************************************************************)
(* Bounds of the model.                                                    *)
(***************************************************************************)
\* Epoch seconds range over 0..MaxDate.
MaxDate == 3
\* A date string has two digits, the low one in 0..Radix-1.
Radix == 2
\* The server answers a query with at most MaxPage trades.
MaxPage == 2
\* An eager call of public.py is followed for at most MaxQueries queries;
\* the history of a lazy call is kept for its first MaxQueries queries.
MaxQueries == 3
\* An exchange holds at most MaxBook trades.
MaxBook == 2

(***************************************************************************)
(* Dates.  A trade's date is a string "%Y-%m-%d %H:%M:%S"; the model keeps *)
(* two of its zero-padded fields, <<hi, lo>>.  Strings are ordered         *)
(* lexicographically, the epoch is the positional value.                   *)
(***************************************************************************)
DateStrs == {<<t \div Radix, t % Radix>> : t \in 0..MaxDate}

date_to_unix_ts_in_utc(date) == date[1] * Radix + date[2]

\* Python's str comparison a < b on two date strings.
StrLess(a, b) == a[1] < b[1] \/ (a[1] = b[1] /\ a[2] < b[2])

\* start / end as the caller passes them: a date string or an integer.
ArgValues == [kind : {"str"}, v : DateStrs] \cup [kind : {"int"}, v : 0..MaxDate]

\* if isinstance(x, str): x = self.date_to_unix_ts_in_utc(x)
Normalize(x) == IF x.kind = "str" THEN date_to_unix_ts_in_utc(x.v) ELSE x.v

(***************************************************************************)
(* Trades and pages.                                                       *)
(***************************************************************************)
TradeIDs == {1, 2}
Trades == [date : DateStrs, tradeID : TradeIDs]
\* The paginator reads only the date of a trade: an arbitrary server's
\* trades differ by date alone.
AnyTrades == {t \in Trades : t.tradeID = 1}

SeqsUpTo(S, n) == UNION {[1..k -> S] : k \in 0..n}

Front(s) == SubSeq(s, 1, Len(s) - 1)
Last(s) == s[Len(s)]

\* One step of a stable descending sort: t goes after every element whose
\* key is >= its own.
InsertDesc(s, t) ==
    LET before == {i \in 1..Len(s) : ~StrLess(s[i].date, t.date)}
        k == IF before = {} THEN 0 ELSE CHOOSE i \in before : \A j \in before : j <= i
    IN  SubSeq(s, 1, k) \o <<t>> \o SubSeq(s, k + 1, Len(s))

RECURSIVE SortDescRec(_)
SortDescRec(s) ==
    IF s = <<>> THEN <<>> ELSE InsertDesc(SortDescRec(Front(s)), Last(s))

\* Mutant of SortDesc: the page is left in the server's order.
SortDesc_Unsorted(s) == s

\* response.sort(key=lambda x: x["date"], reverse=True)
SortDesc(s) == SortDescRec(s)

RECURSIVE Flatten(_)
Flatten(ps) == IF ps = <<>> THEN <<>> ELSE Flatten(Front(ps)) \o Last(ps)

Range(s) == {s[i] : i \in 1..Len(s)}

Min(a, b) == IF a <= b THEN a ELSE b

(***************************************************************************)
(* The state: the running method and its locals, what the caller got, and  *)
(* the history of the call.                                                *)
(***************************************************************************)
VARIABLES
    method,        \* the client method called ("none" before the call)
    currencyPair,  \* its symbol argument
    granularity,   \* its period / interval argument (candle methods)
    start,         \* local start (epoch seconds)
    end,           \* local end: the pagination cursor
    done,          \* local done
    response,      \* local response: the last page, sorted
    pages,         \* local pages: the eager result
    pc,            \* idle, loop, created, suspended, returned, exhausted,
                   \* closed, raised
    ret,           \* the body a one-request method returned
    exc,           \* the exception the call raised
    history,       \* whether the history variables below are being kept
    body,          \* what the last GET produced
    requests,      \* history: the commands sent to the server, in order
    received,      \* history: the pages received, as the server ordered them
    yielded,       \* history: the pages the generator yielded
    requested,     \* history: how many pages the consumer asked for
    inWindow,      \* every page so far lay in the window of its query
    server,        \* the server: arbitrary, or an exchange with a trade book
    script,        \* replay: the pages the eager call received
    eagerPages,    \* replay: the list the eager call returned
    eagerRequests  \* replay: the commands the eager call sent

vars == <<method, currencyPair, granularity, start, end, done, response, pages,
          pc, ret, exc, history, body, requests, received, yielded, requested, inWindow,
          server, script, eagerPages, eagerRequests>>

locals == <<currencyPair, start, end, done, response, pages>>
replay == <<history, script, eagerPages, eagerRequests>>

(***************************************************************************)
(* Requests, bodies and exceptions.                                        *)
(***************************************************************************)
Symbols == {"USDT_BTC", "BTC_ETH"}

\* public.py:28, api.py:32, abstract.py:28
PERIODS == {300, 900, 1800, 7200, 14400, 86400}
\* public_v2.py:24-39 (the keys)
INTERVALS == {"MINUTE_1", "MINUTE_5", "MINUTE_10", "MINUTE_15", "MINUTE_30",
              "HOUR_1", "HOUR_2", "HOUR_4", "HOUR_6", "HOUR_12", "DAY_1",
              "DAY_3", "WEEK_1", "MONTH_1"}

\* "returnTradeHistory&currencyPair={0}&start={1}&end={2}".format(...)
TradeHistoryCommand(pair, s, e) ==
    [name |-> "returnTradeHistory", currencyPair |-> pair, start |-> s, end |-> e]

\* What one GET can produce: a transport or decoding failure, a JSON list,
\* or a JSON object with some of these keys.
BodyKeys == {"error", "code", "data"}
Fail == [type |-> "fail", items |-> <<>>, keys |-> {}]
ListBody(items) == [type |-> "list", items |-> items, keys |-> {}]
DictBody(keys) == [type |-> "dict", items |-> <<>>, keys |-> keys]
DictBodies == {DictBody(k) : k \in SUBSET BodyKeys}
NoBody == [type |-> "none", items |-> <<>>, keys |-> {}]

\* 'error' in response, "code" in response
HasKey(b, k) == b.type = "dict" /\ k \in b.keys

NoExc == [class |-> "none", kind |-> "none", command |-> <<>>]
Raised(class, kind, command) == [class |-> class, kind |-> kind, command |-> <<command>>]

Returns(b) == [ok |-> TRUE, value |-> b, exc |-> NoExc]
Raises(e) == [ok |-> FALSE, value |-> NoBody, exc |-> e]

\* Mutant of execute: an empty list is taken for a failure, as with
\* "if not response or 'error' in response".
execute_EmptyIsError(command, reply) ==
    IF reply.type = "fail"
    THEN Raises(Raised("PublicAPIError", "RequestError", command))
    ELSE IF HasKey(reply, "error") \/ (reply.type = "list" /\ reply.items = <<>>)
         THEN Raises(Raised("PublicAPIError", "ServerError", command))
         ELSE Returns(reply)

\* public.py and abstract.py: PublicAPI.execute
execute(command, reply) ==
    IF reply.type = "fail"
    THEN Raises(Raised("PublicAPIError", "RequestError", command))
    ELSE IF HasKey(reply, "error")
         THEN Raises(Raised("PublicAPIError", "ServerError", command))
         ELSE Returns(reply)

\* api.py: PublicAPI.execute
api_execute(command, reply) ==
    IF reply.type = "fail"
    THEN Raises(Raised("PublicAPIError", "RequestError", command))
    ELSE Returns(reply)

\* public_v2.py: PublicApiV2._execute.  PublicApiError(command=command,
\* **response) accepts the keywords code and message only.
_execute(command, reply) ==
    IF reply.type = "fail"
    THEN Raises(Raised("PublicApiError", "RequestError", command))
    ELSE IF HasKey(reply, "code")
         THEN IF reply.keys \subseteq {"code", "message"}
              THEN Raises(Raised("PublicApiError", "ServerError", command))
              ELSE Raises([class |-> "TypeError", kind |-> "TypeError", command |-> <<>>])
         ELSE Returns(reply)

\* self.execute / self._execute of the client a method belongs to.
ClientExecute(client, command, reply) ==
    CASE client = "public" -> execute(command, reply)
      [] client = "api" -> api_execute(command, reply)
      [] client = "v2" -> _execute(command, reply)

\* response.sort(...) on a JSON object
AttributeError == [class |-> "AttributeError", kind |-> "AttributeError", command |-> <<>>]

(***************************************************************************)
(* The server.                                                             *)
(***************************************************************************)
AnyServer == [kind |-> "any", book |-> {}, limit |-> 0]
BookServers ==
    [kind : {"book"}, book : {b \in SUBSET Trades : Cardinality(b) <= MaxBook},
     limit : 1..MaxPage]

InQueryWindow(t, s, e) ==
    s <= date_to_unix_ts_in_utc(t.date) /\ date_to_unix_ts_in_utc(t.date) <= e

Descending(p) == \A i \in 1..(Len(p) - 1) : ~StrLess(p[i].date, p[i + 1].date)

\* An exchange answers with the (at most limit) most recent trades of its
\* book that lie in the window, most recent first.
BookPages(book, limit, s, e) ==
    LET W == {t \in book : InQueryWindow(t, s, e)}
        n == Min(limit, Cardinality(W))
    IN  {p \in [1..n -> W] :
            /\ \A i, j \in 1..n : i # j => p[i] # p[j]
            /\ Descending(p)
            /\ \A t \in W \ Range(p) : \A i \in 1..n : ~StrLess(p[i].date, t.date)}

\* The bodies the server may answer the k-th trade-history query with.
TradeHistoryReplies(s, e, k) ==
    IF k <= Len(script)
    THEN {ListBody(script[k])}
    ELSE IF server.kind = "book"
         THEN {ListBody(p) : p \in BookPages(server.book, server.limit, s, e)}
         ELSE {ListBody(p) : p \in SeqsUpTo(AnyTrades, MaxPage)}
              \cup DictBodies \cup {Fail}

WindowOK(reply, s, e) ==
    \A i \in 1..Len(reply.items) : InQueryWindow(reply.items[i], s, e)

(***************************************************************************)
(* Trade-history pagination.                                               *)
(***************************************************************************)
\* end = self.date_to_unix_ts_in_utc(response[-1]["date"]) - 1
NewCursor(resp) == date_to_unix_ts_in_utc(Last(resp).date) - 1

\* public.py get_trade_history: if end <= start: done = True
HistoryDone(e, s) == e <= s

\* Mutant of BatchDone: a cursor equal to start is queried once more.
BatchDone_Strict(e, s) == e < s

\* public.py get_trade_history_batch: if end <= start: done = True
BatchDone(e, s) == e <= s

\* api.py get_trade_history: the loop has no test on end
ApiDone(e, s) == FALSE

\* The test on the new end in get_trade_history of the client named.
LoopDone(client, e, s) ==
    IF client = "public" THEN HistoryDone(e, s) ELSE ApiDone(e, s)

Init ==
    /\ method = "none"
    /\ currencyPair = ""
    /\ granularity = <<>>
    /\ start = 0
    /\ end = 0
    /\ done = FALSE
    /\ response = <<>>
    /\ pages = <<>>
    /\ pc = "idle"
    /\ ret = NoBody
    /\ exc = NoExc
    /\ history = TRUE
    /\ body = NoBody
    /\ requests = <<>>
    /\ received = <<>>
    /\ yielded = <<>>
    /\ requested = 0
    /\ inWindow = TRUE
    /\ server \in {AnyServer} \cup BookServers
    /\ script = <<>>
    /\ eagerPages = <<>>
    /\ eagerRequests = <<>>

\* get_trade_history(currencyPair, start, end) up to the loop, of public.py
\* (impl = "public") and of api.py (impl = "api").
CallTradeHistory(impl, pair, s, e) ==
    /\ pc = "idle"
    /\ method' = impl
    /\ currencyPair' = pair
    /\ start' = Normalize(s)
    /\ end' = Normalize(e)
    /\ pages' = <<>>
    /\ done' = FALSE
    /\ pc' = "loop"
    /\ UNCHANGED <<granularity, response, ret, exc, body, requests, received,
                   yielded, requested, inWindow, server, replay>>

\* One iteration of the while loop of an eager get_trade_history, and the
\* return that follows the last one, in the client named.
EagerIteration(client) ==
    LET command == TradeHistoryCommand(currencyPair, start, end)
    IN  \E reply \in TradeHistoryReplies(start, end, Len(requests) + 1) :
          LET r == ClientExecute(client, command, reply)
              resp == SortDesc(reply.items)
              newEnd == IF Len(resp) > 0 THEN NewCursor(resp) ELSE end
              newDone == IF Len(resp) > 0 THEN LoopDone(client, newEnd, start) ELSE TRUE
          IN  /\ requests' = Append(requests, command)
              /\ body' = reply
              /\ IF ~r.ok
                 THEN /\ pc' = "raised"
                      /\ exc' = r.exc
                      /\ UNCHANGED <<response, pages, end, done, received, inWindow>>
                 ELSE IF r.value.type # "list"
                 THEN /\ pc' = "raised"
                      /\ exc' = AttributeError
                      /\ UNCHANGED <<response, pages, end, done, received, inWindow>>
                 ELSE /\ response' = resp
                      /\ received' = Append(received, reply.items)
                      /\ inWindow' = (inWindow /\ WindowOK(reply, start, end))
                      /\ pages' = pages \o resp
                      /\ end' = newEnd
                      /\ done' = newDone
                      /\ pc' = IF newDone THEN "returned" ELSE "loop"
                      /\ exc' = exc
              /\ UNCHANGED <<method, currencyPair, granularity, start, ret, yielded,
                             requested, server, replay>>

\* public.py: PublicAPI.get_trade_history, lines 93-104
get_trade_history ==
    /\ pc = "loop"
    /\ method = "public.get_trade_history"
    /\ Len(requests) < MaxQueries
    /\ EagerIteration("public")

\* api.py: PublicAPI.get_trade_history, lines 95-110
api_get_trade_history ==
    /\ pc = "loop"
    /\ method = "api.get_trade_history"
    /\ EagerIteration("api")
    \* This loop is followed against pages that lie in the window of their
    \* query, which end it by themselves.
    /\ inWindow'

\* Mutant of get_trade_history_batch: the first query is sent by the call
\* itself, before the consumer asks for a page.
get_trade_history_batch_Prefetch(pair, s, e) ==
    /\ pc = "idle"
    /\ method' = "public.get_trade_history_batch"
    /\ currencyPair' = pair
    /\ start' = Normalize(s)
    /\ end' = Normalize(e)
    /\ done' = FALSE
    /\ requests' = <<TradeHistoryCommand(pair, Normalize(s), Normalize(e))>>
    /\ pc' = "created"
    /\ UNCHANGED <<granularity, response, pages, ret, exc, body, received, yielded,
                   requested, inWindow, server, replay>>

\* get_trade_history_batch(currency_pair, start, end): calling a generator
\* function runs none of its body.  (The two isinstance conversions run at
\* the first next(); nothing can observe them before.)
get_trade_history_batch(pair, s, e) ==
    /\ pc = "idle"
    /\ method' = "public.get_trade_history_batch"
    /\ currencyPair' = pair
    /\ start' = Normalize(s)
    /\ end' = Normalize(e)
    /\ done' = FALSE
    /\ pc' = "created"
    /\ UNCHANGED <<granularity, response, pages, ret, exc, body, requests,
                   received, yielded, requested, inWindow, server, replay>>

\* next() on the generator: from its start, or from the yield, to the next
\* yield or to the end of the loop (StopIteration).  The history is dropped
\* when the call sends more than MaxQueries queries.
Resume ==
    /\ pc \in {"created", "suspended"}
    /\ method = "public.get_trade_history_batch"
    /\ LET end1 == IF pc = "suspended" THEN NewCursor(response) ELSE end
           done1 == IF pc = "suspended" THEN BatchDone(end1, start) ELSE FALSE
           command == TradeHistoryCommand(currencyPair, start, end1)
           keep == history /\ Len(requests) < MaxQueries
           Log(log, x) == IF keep THEN Append(log, x) ELSE <<>>
       IN  IF done1
           THEN /\ pc' = "exhausted"
                /\ end' = end1
                /\ done' = TRUE
                /\ requested' = IF history THEN requested + 1 ELSE 0
                /\ UNCHANGED <<response, exc, history, body, requests, received,
                               yielded, inWindow>>
           ELSE \E reply \in TradeHistoryReplies(start, end1,
                                    IF keep THEN Len(requests) + 1 ELSE Len(script) + 1) :
                  LET r == execute(command, reply)
                      resp == SortDesc(reply.items)
                  IN  /\ history' = keep
                      /\ requested' = IF keep THEN requested + 1 ELSE 0
                      /\ requests' = Log(requests, command)
                      /\ body' = reply
                      /\ end' = end1
                      /\ IF ~r.ok
                         THEN /\ pc' = "raised"
                              /\ exc' = r.exc
                              /\ received' = IF keep THEN received ELSE <<>>
                              /\ yielded' = IF keep THEN yielded ELSE <<>>
                              /\ UNCHANGED <<response, done, inWindow>>
                         ELSE IF r.value.type # "list"
                         THEN /\ pc' = "raised"
                              /\ exc' = AttributeError
                              /\ received' = IF keep THEN received ELSE <<>>
                              /\ yielded' = IF keep THEN yielded ELSE <<>>
                              /\ UNCHANGED <<response, done, inWindow>>
                         ELSE /\ response' = resp
                              /\ received' = Log(received, reply.items)
                              /\ inWindow' = (inWindow /\ WindowOK(reply, start, end1))
                              /\ yielded' = IF keep /\ Len(resp) > 0 THEN Append(yielded, resp)
                                            ELSE IF keep THEN yielded ELSE <<>>
                              /\ done' = (Len(resp) = 0)
                              /\ pc' = IF Len(resp) > 0 THEN "suspended" ELSE "exhausted"
                              /\ exc' = exc
    /\ UNCHANGED <<method, currencyPair, granularity, start, pages, ret, server,
                   script, eagerPages, eagerRequests>>

\* The consumer stops iterating: the suspended generator is dropped.  (The
\* consumer of a replay goes on to the end.)
Close ==
    /\ pc \in {"created", "suspended"}
    /\ script = <<>>
    /\ pc' = "closed"
    /\ UNCHANGED <<method, locals, granularity, ret, exc, body, requests, received,
                   yielded, requested, inWindow, server, replay>>

\* After get_trade_history returned: get_trade_history_batch is called with
\* the same arguments, against a server that answers as it answered then.
Replay ==
    /\ pc = "returned"
    /\ method = "public.get_trade_history"
    /\ server = AnyServer
    /\ script = <<>>
    /\ script' = received
    /\ eagerPages' = pages
    /\ eagerRequests' = requests
    /\ method' = "public.get_trade_history_batch"
    /\ end' = requests[1].end
    /\ done' = FALSE
    /\ response' = <<>>
    /\ pages' = <<>>
    /\ requests' = <<>>
    /\ received' = <<>>
    /\ yielded' = <<>>
    /\ requested' = 0
    /\ inWindow' = TRUE
    /\ body' = NoBody
    /\ pc' = "created"
    /\ UNCHANGED <<currencyPair, granularity, start, ret, exc, history, server>>

(***************************************************************************)
(* The methods that send one request.                                      *)
(***************************************************************************)
\* What the server may answer such a request with.  (An exchange with a
\* trade book is followed through trade-history calls only.)
Replies == DictBodies \cup {Fail, ListBody(<<>>)}

\* command = "returnTicker" ... ; path = "/markets/{0}/price".format(symbol)
Command(name, args) == [name |-> name, args |-> args]

\* A method whose body is: build the command, return self.execute(command).
OneRequest(m, command, client) ==
    /\ pc = "idle"
    /\ server = AnyServer
    /\ method' = m
    /\ \E reply \in Replies :
         LET r == ClientExecute(client, command, reply)
         IN  /\ requests' = <<command>>
             /\ body' = reply
             /\ ret' = r.value
             /\ exc' = r.exc
             /\ pc' = IF r.ok THEN "returned" ELSE "raised"
    /\ UNCHANGED <<locals, granularity, received, yielded, requested, inWindow,
                   server, replay>>

\* public.py: get_orderbook, get_tickers, get_24hvolume, get_currencies
PublicSimple ==
    \/ \E pair \in Symbols :
         OneRequest("public.get_orderbook", Command("returnOrderBook", <<pair>>), "public")
    \/ OneRequest("public.get_tickers", Command("returnTicker", <<>>), "public")
    \/ OneRequest("public.get_24hvolume", Command("return24hVolume", <<>>), "public")
    \/ OneRequest("public.get_currencies", Command("returnCurrencies", <<>>), "public")

\* api.py: get_orderbook, get_tickers, get_24hvolume, get_currencies
ApiSimple ==
    \/ \E pair \in Symbols :
         OneRequest("api.get_orderbook", Command("returnOrderBook", <<pair>>), "api")
    \/ OneRequest("api.get_tickers", Command("returnTicker", <<>>), "api")
    \/ OneRequest("api.get_24hvolume", Command("return24hVolume", <<>>), "api")
    \/ OneRequest("api.get_currencies", Command("returnCurrencies", <<>>), "api")

\* public_v2.py: get_price, get_trades, and get_orderbook up to its _execute
\* (the reshaping that follows reads a returned body only).
V2Simple ==
    \/ \E symbol \in Symbols :
         OneRequest("v2.get_price", Command("/markets/price", <<symbol>>), "v2")
    \/ \E symbol \in Symbols :
         OneRequest("v2.get_trades", Command("/markets/trades", <<symbol>>), "v2")
    \/ \E symbol \in Symbols :
         OneRequest("v2.get_orderbook", Command("/markets/orderBook", <<symbol>>), "v2")

\* The granularities callers try: the supported ones and some others.
PeriodValues == PERIODS \cup {0, 60}
IntervalValues == INTERVALS \cup {"MINUTE_7", "300"}

\* if period not in self.PERIODS: raise PublicAPIError("bad_period", ...)
BadPeriod(period) == period \notin PERIODS

\* get_chartdata(currencyPair, period, start, end) of public.py
\* (impl = "public") and of api.py (impl = "api").
get_chartdata(impl, client, pair, period, s, e) ==
    /\ pc = "idle"
    /\ server = AnyServer
    /\ method' = impl
    /\ granularity' = <<period>>
    /\ IF BadPeriod(period)
       THEN /\ pc' = "raised"
            /\ exc' = Raised("PublicAPIError", "InvalidParameter", "returnChartData")
            /\ UNCHANGED <<ret, body, requests>>
       ELSE LET command == Command("returnChartData",
                                   <<pair, Normalize(s), Normalize(e), period>>)
            IN  \E reply \in Replies :
                  LET r == ClientExecute(client, command, reply)
                  IN  /\ requests' = <<command>>
                      /\ body' = reply
                      /\ ret' = r.value
                      /\ exc' = r.exc
                      /\ pc' = IF r.ok THEN "returned" ELSE "raised"
    /\ UNCHANGED <<locals, received, yielded, requested, inWindow, server, replay>>

\* public_v2.py: get_candles(symbol, interval, ...) up to its _execute: the
\* interval goes into the path as it is.  (The table is built from a
\* returned body only.)
get_candles(symbol, interval) ==
    /\ pc = "idle"
    /\ server = AnyServer
    /\ method' = "v2.get_candles"
    /\ granularity' = <<interval>>
    /\ LET command == Command("/markets/candles", <<symbol, interval>>)
       IN  \E reply \in Replies :
             LET r == _execute(command, reply)
             IN  /\ requests' = <<command>>
                 /\ body' = reply
                 /\ ret' = r.value
                 /\ exc' = r.exc
                 /\ pc' = IF r.ok THEN "returned" ELSE "raised"
    /\ UNCHANGED <<locals, received, yielded, requested, inWindow, server, replay>>

Next ==
    \/ \E impl \in {"public.get_trade_history", "api.get_trade_history"},
          pair \in Symbols, s, e \in ArgValues : CallTradeHistory(impl, pair, s, e)
    \/ get_trade_history
    \/ api_get_trade_history
    \/ \E pair \in Symbols, s, e \in ArgValues : get_trade_history_batch(pair, s, e)
    \/ Resume
    \/ Close
    \/ Replay
    \/ PublicSimple
    \/ ApiSimple
    \/ V2Simple
    \/ \E pair \in Symbols, period \in PeriodValues, s, e \in ArgValues :
         get_chartdata("public.get_chartdata", "public", pair, period, s, e)
    \/ \E pair \in Symbols, period \in PeriodValues, s, e \in ArgValues :
         get_chartdata("api.get_chartdata", "api", pair, period, s, e)
    \/ \E symbol \in Symbols, interval \in IntervalValues : get_candles(symbol, interval)

Spec == Init /\ [][Next]_vars

\* The interpreter keeps running the call, and a consumer that has not
\* closed the generator asks for the next page.
FairSpec == Spec /\ WF_vars(Next)

(***************************************************************************)
(* Vocabulary of the properties.                                           *)
(***************************************************************************)
Eager == method \in {"public.get_trade_history", "api.get_trade_history"}
Lazy == method = "public.get_trade_history_batch"
Guarded == method \in {"public.get_trade_history", "public.get_trade_history_batch"}
Paginating == Eager \/ Lazy

\* The call is over: it returned, the generator ended or was dropped, or an
\* exception left it.
Finished == pc \in {"returned", "exhausted", "closed", "raised"}
\* An eager call the model stops following.
Truncated ==
    method = "public.get_trade_history" /\ pc = "loop" /\ Len(requests) >= MaxQueries

\* The end argument of the call (while the history is kept).
End0 == IF requests = <<>> THEN end ELSE requests[1].end

\* The i-th page holds no trade dated after the end of the i-th query.
NotAfterEnd(i) ==
    \A j \in 1..Len(received[i]) :
        date_to_unix_ts_in_utc(received[i][j].date) <= requests[i].end

\* C1 as stated: pagination terminates after finitely many queries, for
\* every server behaviour.  (A call the model stops following counts as
\* terminated, so only a run that really goes on for ever refutes this.)
C1_TerminatesForEveryServer == <>(Finished \/ Truncated)

\* What the code does guarantee where C1 fails: pagination terminates after
\* finitely many queries when every page the server returns lies in the
\* window [start, end] of the query it answers.
TerminatesInWindow == <>(Finished \/ ~inWindow)

\* C2 as stated: against an exchange that answers each query with the most
\* recent trades of its book in [start, cursor], the list an eager
\* get_trade_history returns holds every trade of the book dated in
\* [start, end].
C2_Complete ==
    (method = "public.get_trade_history" /\ pc = "returned" /\ server.kind = "book")
        => \A t \in server.book :
              InQueryWindow(t, start, End0) => t \in Range(pages)

\* C3 as stated: in one pagination call every query has the start and the
\* symbol of the one before it, and an end that is <= the end before it.
C3_CursorNonIncreasing ==
    Paginating =>
        \A i \in 1..(Len(requests) - 1) :
            /\ requests[i + 1].end <= requests[i].end
            /\ requests[i + 1].start = requests[i].start
            /\ requests[i + 1].currencyPair = requests[i].currencyPair

\* What the code does guarantee where C3 fails: every query has the start
\* and the symbol of the one before it, and its end is below the end before
\* it whenever the page between the two holds no trade dated after the
\* earlier end.
CursorDecreasesInWindow ==
    Paginating =>
        \A i \in 1..(Len(requests) - 1) :
            /\ NotAfterEnd(i) => requests[i + 1].end < requests[i].end
            /\ requests[i + 1].start = requests[i].start
            /\ requests[i + 1].currencyPair = requests[i].currencyPair

\* The pages an eager call received, each sorted, one after the other.
SortedPages == [i \in 1..Len(received) |-> SortDesc(received[i])]

C5_EagerLazyEquivalent ==
    (Lazy /\ script # <<>> /\ pc = "exhausted")
        => /\ requests = eagerRequests
           /\ Flatten(yielded) = eagerPages

\* C5: a replayed call of at least two queries was consumed to its end.
C5_Witness ==
    /\ Lazy
    /\ script # <<>>
    /\ pc = "exhausted"
    /\ Len(eagerRequests) >= 2
    /\ Len(yielded) >= 2

CandleMethods == {"public.get_chartdata", "api.get_chartdata", "v2.get_candles"}
Supported == IF method = "v2.get_candles" THEN INTERVALS ELSE PERIODS

\* C6 as stated: a candle retrieval called with a granularity outside the
\* supported set fails with InvalidParameter and sends no request.
C6_BadGranularityRejected ==
    (method \in CandleMethods /\ granularity[1] \notin Supported)
        => /\ pc = "raised"
           /\ exc.kind = "InvalidParameter"
           /\ requests = <<>>

\* The error indicator of the client's API style.
ErrorKey == IF method \in {"v2.get_price", "v2.get_trades", "v2.get_orderbook",
                           "v2.get_candles"}
            THEN "code" ELSE "error"

\* C7 as stated: for every client method, a body with an error indicator
\* makes the call fail with a ServerError that carries the command, and is
\* never returned.
C7_ErrorBodyRaises ==
    HasKey(body, ErrorKey)
        => /\ pc = "raised"
           /\ exc.kind = "ServerError"
           /\ exc.command = <<requests[Len(requests)]>>

\* C8 as stated: after a non-empty page whose oldest trade gives
\* new_cursor <= start, the page is in the result and no further query is
\* sent.
C8_CursorGuard ==
    Paginating =>
        \A i \in 1..Len(received) :
            (received[i] # <<>> /\ NewCursor(SortDesc(received[i])) <= start)
                => /\ Len(requests) = i
                   /\ IF Lazy THEN yielded[i] = SortDesc(received[i])
                      ELSE SubSeq(pages, Len(pages) - Len(received[i]) + 1, Len(pages))
                              = SortDesc(received[i])

\* C9 as stated: with start >= end at entry, a pagination of public.py
\* sends its first query all the same and no second one, whatever page the
\* server returns.
C9_OneQuery ==
    (Guarded /\ history /\ start >= End0)
        => /\ Len(requests) <= 1
           /\ pc \in {"returned", "exhausted"} => Len(requests) = 1

\* What the code does guarantee where C9 fails: with start >= end at entry,
\* a pagination of public.py sends its first query all the same, and no
\* second one when the first page holds no trade dated after end.
OneQueryInWindow ==
    (Guarded /\ history /\ start >= End0)
        => /\ (received # <<>> /\ NotAfterEnd(1)) => Len(requests) <= 1
           /\ pc \in {"returned", "exhausted"} => Len(requests) >= 1

\* C10: a lazy pagination has sent no more queries than the pages its
\* consumer has asked for: none before the first next(), none between a
\* yield and the next next(), none once the consumer has stopped.
C10_QueriesOnDemand ==
    Lazy => Len(requests) <= requested

\* C10: a consumer took one page and stopped; one query was sent.
C10_Witness ==
    /\ Lazy
    /\ pc = "closed"
    /\ requested = 1
    /\ Len(requests) = 1
    /\ Len(yielded) = 1

\* The first query of the call was answered with an empty list: it is the
\* last body received, or the first page of those received so far.
FirstPageEmpty ==
    IF Len(requests) = 1
    THEN body = ListBody(<<>>)
    ELSE Len(requests) > 1 /\ received # <<>> /\ received[1] = <<>>

\* C11: in public.py, when the first query of a pagination is answered with
\* an empty page, no error is raised and the call is over after that one
\* query: the eager get_trade_history has returned an empty list, the lazy
\* get_trade_history_batch has ended without yielding a page.
C11_EmptyFirstPage ==
    (Guarded /\ history /\ FirstPageEmpty)
        => /\ Len(requests) = 1
           /\ exc = NoExc
           /\ received = << <<>> >>
           /\ IF Lazy THEN pc = "exhausted" /\ yielded = <<>>
              ELSE pc = "returned" /\ pages = <<>>

\* C11: an eager call whose first page was empty returned the empty list,
\* and the lazy call made with its arguments and answered the same way
\* ended after one query without yielding a page.
C11_Witness ==
    /\ Lazy
    /\ script = << <<>> >>
    /\ eagerPages = <<>>
    /\ Len(eagerRequests) = 1
    /\ pc = "exhausted"
    /\ Len(requests) = 1
    /\ yielded = <<>>
    /\ exc = NoExc
=============================================================================
